---- MODULE Spec2Model ----
(***************************************************************************)
(* Model of the attention-kernel test fixtures of tests/kernels/utils.py:  *)
(* the paged KV-cache layout allocator make_block_tables_slot_mapping,     *)
(* the packing codec pack_tensor, the padded Q/K/V builder make_qkv, the   *)
(* argument checks and masks of ref_masked_attention, and the metadata     *)
(* record of make_test_metadata.                                           *)
(*                                                                         *)
(* Python lists are TLA+ sequences, so Python index i is TLA+ index i + 1. *)
(* A tensor row (num_heads x head_size values, always copied or zeroed as  *)
(* a unit by the code) is one integer; 0 is the all-zero row.              *)
(***************************************************************************)
EXTENDS Integers, Sequences, FiniteSets, TLC

\* ---------------------------------------------------------------- bounds
MaxBatch == 3        \* longest seq_lens list given to the allocator
MaxTokens == 5       \* largest token count of one sequence
MaxBlockSize == 4    \* largest block_size
MaxBaseAddr == 1     \* largest block_base_addr of a single call
ChainMaxBatch == 2   \* longest seq_lens list of a chained allocator call
ChainMaxTokens == 2  \* largest token count of a sequence of a chained call
ChainMaxBlockSize == 2   \* largest block_size of a chain of calls
MaxChainBase == 3    \* largest block_base_addr a chain hands to a next call
PackMaxBatch == 2    \* most rows of a padded buffer given to pack_tensor
PackMaxLen == 2      \* widest padded buffer given to pack_tensor
QkvMaxBatch == 2     \* largest batch_size given to make_qkv
QkvMaxLen == 3       \* largest max_q_seq_len / max_kv_seq_len
AttnMaxBatch == 1    \* largest batch size B given to ref_masked_attention
AttnMaxLen == 1      \* largest padded query / key length Tq, Tk
MetaMaxBatch == 2    \* longest seq_lens list given to make_test_metadata
MetaMaxTokens == 2   \* largest token count in that list
MetaMaxCount == 2    \* largest supplied sequence count or token count

\* ------------------------------------------------------------- variables
VARIABLES
    \* make_block_tables_slot_mapping: arguments
    block_size, seq_lens, block_base_addr,
    \* make_block_tables_slot_mapping: control and results
    pc, block_tables, prefill_slot_mapping, decode_slot_mapping,
    slot_mapping, max_block_idx,
    \* the caller's chain of allocations
    num_calls, prev_blocks, prev_slots,
    \* pack_tensor: arguments, control and results
    unpacked_tensor, pack_seq_lens, pack_pc, packed_tensor, start_loc_list,
    \* make_qkv: arguments and control
    batch_size, max_q_seq_len, max_kv_seq_len, attn_type, force_max_len,
    qkv_pc,
    \* make_qkv: results
    query, key, value, prefill_query, prefill_key, prefill_value,
    decode_query, decode_key, decode_value, q_seq_lens, kv_seq_lens,
    actual_max_q_seq_len, actual_max_kv_seq_len, prefill_q_seq_lens,
    prefill_kv_seq_lens, decode_q_seq_lens, decode_kv_seq_lens,
    \* ref_masked_attention: arguments (shapes of query and key, the length
    \* lists, whether a custom mask is given), control, exception and mask
    attn_batch_size, attn_q_len, attn_k_len, attn_q_seq_lens,
    attn_kv_seq_lens, attn_custom_mask, attn_pc, attn_exc, attn_masked,
    \* make_test_metadata: arguments, control, exception and the record
    is_prompt, meta_seq_lens, encoder_seq_lens, is_encoder_only_test,
    num_prefills_or_decodes, num_prefill_or_decode_tokens, meta_pc,
    meta_exc, metadata

allocVars == <<block_size, seq_lens, block_base_addr, pc, block_tables,
               prefill_slot_mapping, decode_slot_mapping, slot_mapping,
               max_block_idx, num_calls, prev_blocks, prev_slots>>

packVars == <<unpacked_tensor, pack_seq_lens, pack_pc, packed_tensor,
              start_loc_list>>

qkvArgs == <<batch_size, max_q_seq_len, max_kv_seq_len, attn_type,
             force_max_len>>

qkvOut == <<query, key, value, prefill_query, prefill_key, prefill_value,
            decode_query, decode_key, decode_value, q_seq_lens, kv_seq_lens,
            actual_max_q_seq_len, actual_max_kv_seq_len, prefill_q_seq_lens,
            prefill_kv_seq_lens, decode_q_seq_lens, decode_kv_seq_lens>>

qkvVars == <<qkvArgs, qkv_pc, qkvOut>>

attnArgs == <<attn_batch_size, attn_q_len, attn_k_len, attn_q_seq_lens,
              attn_kv_seq_lens, attn_custom_mask>>

attnVars == <<attnArgs, attn_pc, attn_exc, attn_masked>>

metaArgs == <<is_prompt, meta_seq_lens, encoder_seq_lens,
              is_encoder_only_test, num_prefills_or_decodes,
              num_prefill_or_decode_tokens>>

metaVars == <<metaArgs, meta_pc, meta_exc, metadata>>

vars == <<allocVars, packVars, qkvVars, attnVars, metaVars>>

\* --------------------------------------------------------------- helpers
RECURSIVE SumSeq(_)
SumSeq(s) == IF s = <<>> THEN 0 ELSE Head(s) + SumSeq(Tail(s))

RECURSIVE MaxSeq(_)
MaxSeq(s) == IF Len(s) = 1 THEN s[1]
             ELSE LET m == MaxSeq(Tail(s)) IN IF s[1] >= m THEN s[1] ELSE m

RangeOf(s) == {s[i] : i \in 1..Len(s)}

RECURSIVE Flatten(_)
Flatten(ss) == IF ss = <<>> THEN <<>> ELSE Head(ss) \o Flatten(Tail(ss))

SeqsUpTo(S, n) == UNION {[1..k -> S] : k \in 0..n}

\* Optional[List]: None, or a list
NoneList == [is_none |-> TRUE, val |-> <<>>]

SomeList(l) == [is_none |-> FALSE, val |-> l]

OptionalLists(S, n) == {NoneList} \cup {SomeList(l) : l \in SeqsUpTo(S, n)}

\* Optional[int]: None, or an integer
NoneInt == [is_none |-> TRUE, val |-> 0]

SomeInt(n) == [is_none |-> FALSE, val |-> n]

\* list(range(start, stop, -1))
py_range_down(start, stop) ==
    [j \in 1..(IF start > stop THEN start - stop ELSE 0) |-> start - (j - 1)]

\* ------------------------------------------- num_tokens_to_min_blocks
num_tokens_to_min_blocks_ceil(num_tokens, bsize) ==
    (num_tokens + bsize - 1) \div bsize

num_tokens_to_min_blocks(num_tokens, bsize) ==
    (num_tokens + bsize) \div bsize

\* ------------------------------------- make_block_tables_slot_mapping
num_blocks_list(lens, bsize) ==
    [i \in 1..Len(lens) |-> num_tokens_to_min_blocks(lens[i], bsize)]

total_cache_blocks(lens, bsize) == SumSeq(num_blocks_list(lens, bsize))

\* block_base_idx = block_base_addr + total_cache_blocks
uppermost_address(base, total) == base + total

\* max_block_idx = block_base_idx, taken before the loop moves block_base_idx
returned_max_block_idx_after_loop(idx_before_loop, idx_after_loop) ==
    idx_after_loop

returned_max_block_idx(idx_before_loop, idx_after_loop) == idx_before_loop

\* block_table = list(range(block_base_idx, block_base_idx - num_blocks, -1))
make_block_table(block_base_idx, num_blocks) ==
    py_range_down(block_base_idx, block_base_idx - num_blocks)

\* mapping_value of token idx (0-based)
mapping_value_plus_one(idx, bsize, block_table) ==
    (idx % bsize) + (block_table[(idx \div bsize) + 1] + 1) * bsize

mapping_value_first_block(idx, bsize, block_table) ==
    idx + block_table[1] * bsize

mapping_value(idx, bsize, block_table) ==
    (idx % bsize) + block_table[(idx \div bsize) + 1] * bsize

\* if idx < num_tokens - 1
is_prefill_idx_all(idx, num_tokens) == idx <= num_tokens - 1

is_prefill_idx(idx, num_tokens) == idx < num_tokens - 1

\* elif idx == num_tokens - 1
is_decode_idx(idx, num_tokens) == idx = num_tokens - 1

\* for idx in range(num_tokens): ...
RECURSIVE token_loop(_, _, _, _, _)
token_loop(idx, num_tokens, bsize, block_table, acc) ==
    IF idx >= num_tokens THEN acc
    ELSE LET mv == mapping_value(idx, bsize, block_table)
             pre == is_prefill_idx(idx, num_tokens)
         IN token_loop(idx + 1, num_tokens, bsize, block_table,
              [acc EXCEPT
                 !.slot_mapping = Append(@, mv),
                 !.prefill_slot_mapping = IF pre THEN Append(@, mv) ELSE @,
                 !.decode_slot_mapping =
                     IF ~pre /\ is_decode_idx(idx, num_tokens)
                     THEN Append(@, mv) ELSE @])

\* block_base_idx -= num_blocks
next_block_base_idx_overlap(block_base_idx, num_blocks) ==
    block_base_idx - num_blocks + 1

next_block_base_idx(block_base_idx, num_blocks) ==
    block_base_idx - num_blocks

\* for sdx, num_tokens in enumerate(seq_lens): ...
RECURSIVE seq_loop(_, _, _, _)
seq_loop(sdx, lens, bsize, acc) ==
    IF sdx >= Len(lens) THEN acc
    ELSE LET num_tokens == lens[sdx + 1]
             num_blocks == num_blocks_list(lens, bsize)[sdx + 1]
             block_table == make_block_table(acc.block_base_idx, num_blocks)
             acc2 == token_loop(0, num_tokens, bsize, block_table, acc)
         IN seq_loop(sdx + 1, lens, bsize,
              [acc2 EXCEPT
                 !.block_base_idx = next_block_base_idx(@, num_blocks),
                 !.block_tables = Append(@, block_table)])

\* max(num_blocks_list) raises ValueError on an empty list
alloc_raises(lens) == lens = <<>>

\* the whole call, for a non-empty seq_lens
make_block_tables_slot_mapping(bsize, lens, base) ==
    LET top == uppermost_address(base, total_cache_blocks(lens, bsize))
        acc == seq_loop(0, lens, bsize,
                 [block_base_idx |-> top,
                  block_tables |-> <<>>,
                  prefill_slot_mapping |-> <<>>,
                  decode_slot_mapping |-> <<>>,
                  slot_mapping |-> <<>>])
    IN [block_tables |-> acc.block_tables,
        prefill_slot_mapping |-> acc.prefill_slot_mapping,
        decode_slot_mapping |-> acc.decode_slot_mapping,
        slot_mapping |-> acc.slot_mapping,
        max_block_idx |-> returned_max_block_idx(top, acc.block_base_idx)]

\* ------------------------------------------------ allocator: state machine
InitAlloc ==
    /\ block_size \in 1..MaxBlockSize
    /\ seq_lens \in SeqsUpTo(0..MaxTokens, MaxBatch)
    /\ block_base_addr \in 0..MaxBaseAddr
    /\ pc = "call"
    /\ block_tables = <<>>
    /\ prefill_slot_mapping = <<>>
    /\ decode_slot_mapping = <<>>
    /\ slot_mapping = <<>>
    /\ max_block_idx = 0
    /\ num_calls = 0
    /\ prev_blocks = {}
    /\ prev_slots = {}

\* one call that returns
CallReturns ==
    /\ pc = "call"
    /\ ~alloc_raises(seq_lens)
    /\ LET r == make_block_tables_slot_mapping(block_size, seq_lens,
                                               block_base_addr)
       IN /\ block_tables' = r.block_tables
          /\ prefill_slot_mapping' = r.prefill_slot_mapping
          /\ decode_slot_mapping' = r.decode_slot_mapping
          /\ slot_mapping' = r.slot_mapping
          /\ max_block_idx' = r.max_block_idx
    /\ pc' = "done"
    /\ num_calls' = num_calls + 1
    /\ UNCHANGED <<block_size, seq_lens, block_base_addr, prev_blocks,
                   prev_slots>>

\* one call that raises before anything is built
CallRaises ==
    /\ pc = "call"
    /\ alloc_raises(seq_lens)
    /\ pc' = "raised"
    /\ num_calls' = num_calls + 1
    /\ UNCHANGED <<block_size, seq_lens, block_base_addr, block_tables,
                   prefill_slot_mapping, decode_slot_mapping, slot_mapping,
                   max_block_idx, prev_blocks, prev_slots>>

\* the first call of a chain of allocations
InitChain ==
    /\ block_size \in 1..ChainMaxBlockSize
    /\ seq_lens \in SeqsUpTo(0..ChainMaxTokens, ChainMaxBatch)
    /\ block_base_addr \in 0..MaxChainBase
    /\ pc = "call"
    /\ block_tables = <<>>
    /\ prefill_slot_mapping = <<>>
    /\ decode_slot_mapping = <<>>
    /\ slot_mapping = <<>>
    /\ max_block_idx = 0
    /\ num_calls = 0
    /\ prev_blocks = {}
    /\ prev_slots = {}

\* the caller chains a further allocation: same block_size, and the
\* previous call's max_block_idx as the next block_base_addr
ChainCall ==
    /\ pc = "done"
    /\ max_block_idx <= MaxChainBase
    /\ \E lens \in SeqsUpTo(0..ChainMaxTokens, ChainMaxBatch) : seq_lens' = lens
    /\ block_base_addr' = max_block_idx
    /\ prev_blocks' = prev_blocks \cup RangeOf(Flatten(block_tables))
    /\ prev_slots' = prev_slots \cup RangeOf(slot_mapping)
    /\ block_tables' = <<>>
    /\ prefill_slot_mapping' = <<>>
    /\ decode_slot_mapping' = <<>>
    /\ slot_mapping' = <<>>
    /\ pc' = "call"
    /\ UNCHANGED <<block_size, max_block_idx, num_calls>>

\* no allocator call is under way in the specifications of the other fixtures
IdleAlloc ==
    /\ block_size = 1
    /\ seq_lens = <<>>
    /\ block_base_addr = 0
    /\ pc = "idle"
    /\ block_tables = <<>>
    /\ prefill_slot_mapping = <<>>
    /\ decode_slot_mapping = <<>>
    /\ slot_mapping = <<>>
    /\ max_block_idx = 0
    /\ num_calls = 0
    /\ prev_blocks = {}
    /\ prev_slots = {}

\* ------------------------------------------------------------ pack_tensor
\* the values of a buffer row: the zero row and a non-zero row
PackVals == {0, 1}

\* a padded buffer: `rows` sequences of `width` tokens, each with a value of S
Buffers(rows, width, S) == [1..rows -> [1..width -> S]]

\* torch.zeros((num_tok, num_heads, head_size))
zeros_rows(n) == [r \in 1..n |-> 0]

\* list(itertools.accumulate(seq_lens))
RECURSIVE py_accumulate(_)
py_accumulate(lens) ==
    IF lens = <<>> THEN <<>>
    ELSE LET init == py_accumulate(SubSeq(lens, 1, Len(lens) - 1))
         IN Append(init, (IF init = <<>> THEN 0 ELSE init[Len(init)])
                           + lens[Len(lens)])

\* start_loc_list = [0] + list(itertools.accumulate(seq_lens))
make_start_loc_list_no_zero(lens) == py_accumulate(lens)

make_start_loc_list(lens) == <<0>> \o py_accumulate(lens)

\* unpacked_tensor[bdx, :seq_len, :, :]
unpacked_slice_tail(unpacked, bdx, seq_len) ==
    SubSeq(unpacked[bdx + 1], Len(unpacked[bdx + 1]) - seq_len + 1,
           Len(unpacked[bdx + 1]))

unpacked_slice(unpacked, bdx, seq_len) ==
    SubSeq(unpacked[bdx + 1], 1, seq_len)

\* packed_tensor[start_loc:(start_loc + seq_len), :, :] = src
assign_rows(packed, start_loc, seq_len, src) ==
    [r \in 1..Len(packed) |->
        IF r > start_loc /\ r <= start_loc + seq_len
        THEN src[r - start_loc] ELSE packed[r]]

\* for bdx, (seq_len, start_loc) in enumerate(zip(seq_lens, start_loc_list))
RECURSIVE pack_loop(_, _, _, _, _)
pack_loop(bdx, unpacked, lens, start_locs, packed) ==
    IF bdx >= Len(lens) \/ bdx >= Len(start_locs) THEN packed
    ELSE pack_loop(bdx + 1, unpacked, lens, start_locs,
            assign_rows(packed, start_locs[bdx + 1], lens[bdx + 1],
                        unpacked_slice(unpacked, bdx, lens[bdx + 1])))

pack_tensor(unpacked, lens) ==
    LET num_tok == SumSeq(lens)
        start_locs == make_start_loc_list(lens)
    IN [packed_tensor |->
            pack_loop(0, unpacked, lens, start_locs, zeros_rows(num_tok)),
        start_loc_list |-> start_locs]

\* a batch: one length per row of the padded buffer, none above its width
InitPack ==
    /\ \E rows \in 0..PackMaxBatch, width \in 1..PackMaxLen :
          /\ unpacked_tensor \in Buffers(rows, width, PackVals)
          /\ pack_seq_lens \in [1..rows -> 0..width]
    /\ pack_pc = "call"
    /\ packed_tensor = <<>>
    /\ start_loc_list = <<>>

IdlePack ==
    /\ unpacked_tensor = <<>>
    /\ pack_seq_lens = <<>>
    /\ pack_pc = "idle"
    /\ packed_tensor = <<>>
    /\ start_loc_list = <<>>

PackTensor ==
    /\ pack_pc = "call"
    /\ LET r == pack_tensor(unpacked_tensor, pack_seq_lens)
       IN /\ packed_tensor' = r.packed_tensor
          /\ start_loc_list' = r.start_loc_list
    /\ pack_pc' = "done"
    /\ UNCHANGED <<unpacked_tensor, pack_seq_lens>>

\* --------------------------------------------------------------- make_qkv
AttentionTypes == {"ENCODER", "DECODER", "ENCODER_DECODER"}

\* torch.rand((batch_size, width, num_heads, head_size)): the code only copies
\* and zeroes rows and never inspects them, so each drawn row is a symbol of
\* its own, non-zero and different from every other drawn row
rand_rows(tensor_id, rows, width) ==
    [i \in 1..rows |-> [t \in 1..width |-> tensor_id * 100 + (i - 1) * 10 + t]]

\* the length lists make_qkv can draw for the query
q_seq_lens_choices(b, max_q, force) ==
    IF force THEN {[i \in 1..b |-> max_q]} ELSE [1..b -> 2..max_q]

\* the length lists make_qkv can draw for key and value
kv_seq_lens_choices(b, max_kv, force, atype, q_lens) ==
    IF atype # "ENCODER_DECODER" THEN {q_lens}
    ELSE IF force THEN {[i \in 1..b |-> max_kv]} ELSE [1..b -> 2..max_kv]

\* x[bdx, seq_len:, :, :] = 0
zero_tail(row, seq_len) ==
    [t \in 1..Len(row) |-> IF t > seq_len THEN 0 ELSE row[t]]

\* the slice bound 0:(seq_len - 1) of the prefill copy
prefill_copy_len_whole(seq_len) == seq_len

prefill_copy_len(seq_len) == seq_len - 1

\* width of the prefill buffers: torch.zeros((batch_size, max_len, ...))
prefill_width(max_len) == max_len

\* prefill_x[bdx, 0:(seq_len - 1), :, :] = x[bdx, 0:(seq_len - 1), :, :]
prefill_row(base_row, seq_len, width) ==
    [t \in 1..width |->
        IF t <= prefill_copy_len(seq_len) /\ t <= Len(base_row)
        THEN base_row[t] ELSE 0]

\* decode_x[bdx, :, :, :] = x[bdx, (seq_len - 1):seq_len, :, :]
decode_row(base_row, seq_len) == SubSeq(base_row, seq_len, seq_len)

\* an empty source slice cannot be assigned to the one-row decode buffer
decode_copy_raises(base_row, seq_len) == seq_len > Len(base_row)

\* prefill_q_seq_lens = [plen - 1 for plen in q_seq_lens]
prefill_seq_lens(lens) == [i \in 1..Len(lens) |-> lens[i] - 1]

\* decode_q_seq_lens = [1 for _ in q_seq_lens]
decode_seq_lens(lens) == [i \in 1..Len(lens) |-> 1]

\* random.randint(2, max_len) raises ValueError when max_len < 2
randint_raises(max_len) == max_len < 2

\* the call raises before any length is drawn or compared
qkv_raises_early(b, max_q, max_kv, atype, force) ==
    \/ b > 0 /\ ~force /\ randint_raises(max_q)
    \/ b > 0 /\ ~force /\ atype = "ENCODER_DECODER" /\ randint_raises(max_kv)
    \/ b = 0      \* max(q_seq_lens) of an empty list

\* the buffers and length lists built for drawn lengths q_lens, kv_lens
make_qkv(b, max_q, max_kv, q_lens, kv_lens) ==
    LET q == [i \in 1..b |-> zero_tail(rand_rows(1, b, max_q)[i], q_lens[i])]
        k == [i \in 1..b |-> zero_tail(rand_rows(2, b, max_kv)[i], kv_lens[i])]
        v == [i \in 1..b |-> zero_tail(rand_rows(3, b, max_kv)[i], kv_lens[i])]
    IN [query |-> q, key |-> k, value |-> v,
        prefill_query |->
            [i \in 1..b |-> prefill_row(q[i], q_lens[i], prefill_width(max_q))],
        prefill_key |->
            [i \in 1..b |-> prefill_row(k[i], kv_lens[i], prefill_width(max_kv))],
        prefill_value |->
            [i \in 1..b |-> prefill_row(v[i], kv_lens[i], prefill_width(max_kv))],
        decode_query |-> [i \in 1..b |-> decode_row(q[i], q_lens[i])],
        decode_key |-> [i \in 1..b |-> decode_row(k[i], kv_lens[i])],
        decode_value |-> [i \in 1..b |-> decode_row(v[i], kv_lens[i])],
        q_seq_lens |-> q_lens,
        kv_seq_lens |-> kv_lens,
        actual_max_q_seq_len |-> MaxSeq(q_lens),
        actual_max_kv_seq_len |-> MaxSeq(kv_lens),
        prefill_q_seq_lens |-> prefill_seq_lens(q_lens),
        prefill_kv_seq_lens |-> prefill_seq_lens(kv_lens),
        decode_q_seq_lens |-> decode_seq_lens(q_lens),
        decode_kv_seq_lens |-> decode_seq_lens(kv_lens)]

EmptyQkvOut ==
    /\ query = <<>> /\ key = <<>> /\ value = <<>>
    /\ prefill_query = <<>> /\ prefill_key = <<>> /\ prefill_value = <<>>
    /\ decode_query = <<>> /\ decode_key = <<>> /\ decode_value = <<>>
    /\ q_seq_lens = <<>> /\ kv_seq_lens = <<>>
    /\ actual_max_q_seq_len = 0 /\ actual_max_kv_seq_len = 0
    /\ prefill_q_seq_lens = <<>> /\ prefill_kv_seq_lens = <<>>
    /\ decode_q_seq_lens = <<>> /\ decode_kv_seq_lens = <<>>

InitQkv ==
    /\ batch_size \in 0..QkvMaxBatch
    /\ max_q_seq_len \in 1..QkvMaxLen
    /\ max_kv_seq_len \in 1..QkvMaxLen
    /\ attn_type \in AttentionTypes
    /\ force_max_len \in BOOLEAN
    /\ qkv_pc = "call"
    /\ EmptyQkvOut

IdleQkv ==
    /\ batch_size = 0
    /\ max_q_seq_len = 1
    /\ max_kv_seq_len = 1
    /\ attn_type = "ENCODER_DECODER"
    /\ force_max_len = FALSE
    /\ qkv_pc = "idle"
    /\ EmptyQkvOut

MakeQkvReturns ==
    /\ qkv_pc = "call"
    /\ ~qkv_raises_early(batch_size, max_q_seq_len, max_kv_seq_len, attn_type,
                         force_max_len)
    /\ \E q_lens \in q_seq_lens_choices(batch_size, max_q_seq_len,
                                        force_max_len) :
       \E kv_lens \in kv_seq_lens_choices(batch_size, max_kv_seq_len,
                                          force_max_len, attn_type, q_lens) :
          LET r == make_qkv(batch_size, max_q_seq_len, max_kv_seq_len,
                            q_lens, kv_lens)
          IN /\ \A i \in 1..batch_size :
                   /\ ~decode_copy_raises(r.query[i], q_lens[i])
                   /\ ~decode_copy_raises(r.key[i], kv_lens[i])
             /\ query' = r.query /\ key' = r.key /\ value' = r.value
             /\ prefill_query' = r.prefill_query
             /\ prefill_key' = r.prefill_key
             /\ prefill_value' = r.prefill_value
             /\ decode_query' = r.decode_query
             /\ decode_key' = r.decode_key
             /\ decode_value' = r.decode_value
             /\ q_seq_lens' = r.q_seq_lens
             /\ kv_seq_lens' = r.kv_seq_lens
             /\ actual_max_q_seq_len' = r.actual_max_q_seq_len
             /\ actual_max_kv_seq_len' = r.actual_max_kv_seq_len
             /\ prefill_q_seq_lens' = r.prefill_q_seq_lens
             /\ prefill_kv_seq_lens' = r.prefill_kv_seq_lens
             /\ decode_q_seq_lens' = r.decode_q_seq_lens
             /\ decode_kv_seq_lens' = r.decode_kv_seq_lens
    /\ qkv_pc' = "done"
    /\ UNCHANGED qkvArgs

MakeQkvRaises ==
    /\ qkv_pc = "call"
    /\ \/ qkv_raises_early(batch_size, max_q_seq_len, max_kv_seq_len,
                           attn_type, force_max_len)
       \/ \E q_lens \in q_seq_lens_choices(batch_size, max_q_seq_len,
                                           force_max_len) :
          \E kv_lens \in kv_seq_lens_choices(batch_size, max_kv_seq_len,
                                             force_max_len, attn_type, q_lens) :
             \E i \in 1..batch_size :
                decode_copy_raises(rand_rows(2, batch_size, max_kv_seq_len)[i],
                                   kv_lens[i])
    /\ qkv_pc' = "raised"
    /\ UNCHANGED <<qkvArgs, qkvOut>>

\* --------------------------------------------------- ref_masked_attention
\* len(x): TypeError on None
len_raises(x) == x.is_none

\* assert (len(x) == batch_size), for a list x
assert_len_fails(x, b) == Len(x.val) # b

\* the exception of the two asserts, "none" when both pass
attn_exception(q_lens, kv_lens, b) ==
    IF len_raises(q_lens) THEN "TypeError"
    ELSE IF assert_len_fails(q_lens, b) THEN "AssertionError"
    ELSE IF len_raises(kv_lens) THEN "TypeError"
    ELSE IF assert_len_fails(kv_lens, b) THEN "AssertionError"
    ELSE "none"

\* attn_mask[bdx, :, plen:, :] = -inf and attn_mask[bdx, :, :, plen:] = -inf;
\* TRUE is -inf, FALSE is 0
basic_attn_mask(b, tq, tk, q_lens, kv_lens) ==
    [bdx \in 1..b |-> [q \in 1..tq |-> [k \in 1..tk |->
        \/ ~q_lens.is_none /\ bdx <= Len(q_lens.val) /\ q > q_lens.val[bdx]
        \/ ~kv_lens.is_none /\ bdx <= Len(kv_lens.val) /\ k > kv_lens.val[bdx]]]]

\* a causal custom mask: key positions after the query position are -inf
causal_mask(b, tq, tk) ==
    [bdx \in 1..b |-> [q \in 1..tq |-> [k \in 1..tk |-> k > q]]]

\* attn_weights + attn_mask (+ custom_mask): the positions at -inf
ref_masked_attention(b, tq, tk, q_lens, kv_lens, custom) ==
    LET basic == IF ~q_lens.is_none \/ ~kv_lens.is_none
                 THEN basic_attn_mask(b, tq, tk, q_lens, kv_lens)
                 ELSE [bdx \in 1..b |-> [q \in 1..tq |-> [k \in 1..tk |-> FALSE]]]
    IN [bdx \in 1..b |-> [q \in 1..tq |-> [k \in 1..tk |->
           \/ basic[bdx][q][k]
           \/ custom /\ causal_mask(b, tq, tk)[bdx][q][k]]]]

InitAttn ==
    /\ attn_batch_size \in 1..AttnMaxBatch
    /\ attn_q_len \in 1..AttnMaxLen
    /\ attn_k_len \in 1..AttnMaxLen
    /\ attn_q_seq_lens \in OptionalLists(0..AttnMaxLen, AttnMaxBatch + 1)
    /\ attn_kv_seq_lens \in OptionalLists(0..AttnMaxLen, AttnMaxBatch + 1)
    /\ attn_custom_mask \in BOOLEAN
    /\ attn_pc = "call"
    /\ attn_exc = "none"
    /\ attn_masked = <<>>

IdleAttn ==
    /\ attn_batch_size = 1
    /\ attn_q_len = 1
    /\ attn_k_len = 1
    /\ attn_q_seq_lens = NoneList
    /\ attn_kv_seq_lens = NoneList
    /\ attn_custom_mask = FALSE
    /\ attn_pc = "idle"
    /\ attn_exc = "none"
    /\ attn_masked = <<>>

RefMaskedAttentionReturns ==
    /\ attn_pc = "call"
    /\ attn_exception(attn_q_seq_lens, attn_kv_seq_lens, attn_batch_size)
          = "none"
    /\ attn_masked' = ref_masked_attention(attn_batch_size, attn_q_len,
                          attn_k_len, attn_q_seq_lens, attn_kv_seq_lens,
                          attn_custom_mask)
    /\ attn_pc' = "done"
    /\ UNCHANGED <<attnArgs, attn_exc>>

RefMaskedAttentionRaises ==
    /\ attn_pc = "call"
    /\ attn_exception(attn_q_seq_lens, attn_kv_seq_lens, attn_batch_size)
          # "none"
    /\ attn_exc' = attn_exception(attn_q_seq_lens, attn_kv_seq_lens,
                                  attn_batch_size)
    /\ attn_pc' = "raised"
    /\ UNCHANGED <<attnArgs, attn_masked>>

\* ----------------------------------------------------- make_test_metadata
\* max(x) for an Optional list: TypeError on None, ValueError on []
max_exception(x) ==
    IF x.is_none THEN "TypeError"
    ELSE IF x.val = <<>> THEN "ValueError" ELSE "none"

\* make_metadata_tensors: max(encoder_seq_lens) unless it is None
metadata_tensors_exception(enc_lens) ==
    IF enc_lens.is_none THEN "none" ELSE max_exception(enc_lens)

\* None if encoder_seq_lens is None else max(encoder_seq_lens)
max_encoder_seq_len_of(enc_lens) ==
    IF enc_lens.is_none THEN NoneInt ELSE SomeInt(MaxSeq(enc_lens.val))

\* the exception of the call, "none" when it returns
metadata_exception(prompt, lens, enc_lens) ==
    IF metadata_tensors_exception(enc_lens) # "none"
    THEN metadata_tensors_exception(enc_lens)
    ELSE IF prompt
    THEN (IF lens.is_none THEN "none" ELSE max_exception(lens))
    ELSE max_exception(lens)

\* num_prefills, num_prefill_tokens, num_decode_tokens of the two branches
phase_counters_mixed(prompt, count, tokens) ==
    IF prompt
    THEN [num_prefills |-> count, num_prefill_tokens |-> tokens,
          num_decode_tokens |-> tokens]
    ELSE [num_prefills |-> count, num_prefill_tokens |-> 0,
          num_decode_tokens |-> tokens]

phase_counters(prompt, count, tokens) ==
    IF prompt
    THEN [num_prefills |-> count, num_prefill_tokens |-> tokens,
          num_decode_tokens |-> 0]
    ELSE [num_prefills |-> 0, num_prefill_tokens |-> 0,
          num_decode_tokens |-> tokens]

\* AttentionType.ENCODER if is_encoder_only_test else AttentionType.DECODER
default_attn_type(encoder_only) ==
    IF encoder_only THEN "ENCODER" ELSE "DECODER"

\* the keyword arguments handed to attn_backend.make_metadata
make_test_metadata(prompt, lens, enc_lens, encoder_only, count, tokens) ==
    LET c == phase_counters(prompt, count, tokens)
    IN [num_prefills |-> c.num_prefills,
        num_prefill_tokens |-> c.num_prefill_tokens,
        num_decode_tokens |-> c.num_decode_tokens,
        seq_lens |-> lens,
        max_prefill_seq_len |->
            IF prompt
            THEN (IF lens.is_none THEN NoneInt ELSE SomeInt(MaxSeq(lens.val)))
            ELSE SomeInt(0),
        max_decode_seq_len |->
            IF prompt THEN SomeInt(0) ELSE SomeInt(MaxSeq(lens.val)),
        use_cuda_graph |-> FALSE,
        attn_type |-> default_attn_type(encoder_only),
        encoder_seq_lens |-> enc_lens,
        max_encoder_seq_len |-> max_encoder_seq_len_of(enc_lens)]

NoMetadata == [built |-> FALSE]

InitMeta ==
    /\ is_prompt \in BOOLEAN
    /\ meta_seq_lens \in OptionalLists(0..MetaMaxTokens, MetaMaxBatch)
    /\ encoder_seq_lens \in OptionalLists(0..MetaMaxTokens, 1)
    /\ is_encoder_only_test \in BOOLEAN
    /\ num_prefills_or_decodes \in 0..MetaMaxCount
    /\ num_prefill_or_decode_tokens \in 0..MetaMaxCount
    /\ meta_pc = "call"
    /\ meta_exc = "none"
    /\ metadata = NoMetadata

IdleMeta ==
    /\ is_prompt = FALSE
    /\ meta_seq_lens = NoneList
    /\ encoder_seq_lens = NoneList
    /\ is_encoder_only_test = FALSE
    /\ num_prefills_or_decodes = 0
    /\ num_prefill_or_decode_tokens = 0
    /\ meta_pc = "idle"
    /\ meta_exc = "none"
    /\ metadata = NoMetadata

MakeTestMetadataReturns ==
    /\ meta_pc = "call"
    /\ metadata_exception(is_prompt, meta_seq_lens, encoder_seq_lens) = "none"
    /\ metadata' = make_test_metadata(is_prompt, meta_seq_lens,
                       encoder_seq_lens, is_encoder_only_test,
                       num_prefills_or_decodes, num_prefill_or_decode_tokens)
    /\ meta_pc' = "done"
    /\ UNCHANGED <<metaArgs, meta_exc>>

MakeTestMetadataRaises ==
    /\ meta_pc = "call"
    /\ metadata_exception(is_prompt, meta_seq_lens, encoder_seq_lens) # "none"
    /\ meta_exc' = metadata_exception(is_prompt, meta_seq_lens,
                                      encoder_seq_lens)
    /\ meta_pc' = "raised"
    /\ UNCHANGED <<metaArgs, metadata>>

\* ------------------------------------------------------- specifications
Init == InitAlloc /\ IdlePack /\ IdleQkv /\ IdleAttn /\ IdleMeta

Next ==
    \/ CallReturns /\ UNCHANGED <<packVars, qkvVars, attnVars, metaVars>>
    \/ CallRaises /\ UNCHANGED <<packVars, qkvVars, attnVars, metaVars>>

Spec == Init /\ [][Next]_vars

InitChainSpec == InitChain /\ IdlePack /\ IdleQkv /\ IdleAttn /\ IdleMeta

NextChain ==
    \/ CallReturns /\ UNCHANGED <<packVars, qkvVars, attnVars, metaVars>>
    \/ CallRaises /\ UNCHANGED <<packVars, qkvVars, attnVars, metaVars>>
    \/ ChainCall /\ UNCHANGED <<packVars, qkvVars, attnVars, metaVars>>

SpecChain == InitChainSpec /\ [][NextChain]_vars

InitPackSpec == IdleAlloc /\ InitPack /\ IdleQkv /\ IdleAttn /\ IdleMeta

NextPack == PackTensor /\ UNCHANGED <<allocVars, qkvVars, attnVars, metaVars>>

SpecPack == InitPackSpec /\ [][NextPack]_vars

InitQkvSpec == IdleAlloc /\ IdlePack /\ InitQkv /\ IdleAttn /\ IdleMeta

NextQkv ==
    \/ MakeQkvReturns /\ UNCHANGED <<allocVars, packVars, attnVars, metaVars>>
    \/ MakeQkvRaises /\ UNCHANGED <<allocVars, packVars, attnVars, metaVars>>

SpecQkv == InitQkvSpec /\ [][NextQkv]_vars

InitAttnSpec == IdleAlloc /\ IdlePack /\ IdleQkv /\ InitAttn /\ IdleMeta

NextAttn ==
    \/ RefMaskedAttentionReturns
          /\ UNCHANGED <<allocVars, packVars, qkvVars, metaVars>>
    \/ RefMaskedAttentionRaises
          /\ UNCHANGED <<allocVars, packVars, qkvVars, metaVars>>

SpecAttn == InitAttnSpec /\ [][NextAttn]_vars

InitMetaSpec == IdleAlloc /\ IdlePack /\ IdleQkv /\ IdleAttn /\ InitMeta

NextMeta ==
    \/ MakeTestMetadataReturns
          /\ UNCHANGED <<allocVars, packVars, qkvVars, attnVars>>
    \/ MakeTestMetadataRaises
          /\ UNCHANGED <<allocVars, packVars, qkvVars, attnVars>>

SpecMeta == InitMetaSpec /\ [][NextMeta]_vars

\* ------------------------------------------------- allocator: properties
AllBlocks == Flatten(block_tables)

AllSlotValues == RangeOf(slot_mapping) \cup RangeOf(prefill_slot_mapping)
                     \cup RangeOf(decode_slot_mapping)

\* number of tokens of the sequences before sequence i (1-based)
TokensBefore(i) == SumSeq(SubSeq(seq_lens, 1, i - 1))

BlockCounts ==
    [i \in 1..Len(seq_lens) |->
        num_tokens_to_min_blocks(seq_lens[i], block_size)]

\* C1: after a call with a non-empty seq_lens, no block address occurs twice
\* in the block tables (neither across sequences nor inside one table), and
\* max_block_idx - block_base_addr is the sum of the per-sequence block
\* counts num_tokens_to_min_blocks(num_tokens, block_size).
C1_NoRepeatAndTotal ==
    pc = "done" =>
        /\ \A a, b \in 1..Len(AllBlocks) :
               a # b => AllBlocks[a] # AllBlocks[b]
        /\ max_block_idx - block_base_addr = SumSeq(BlockCounts)

C1_Witness ==
    /\ pc = "done"
    /\ Len(seq_lens) = 2
    /\ Len(block_tables[1]) = 2
    /\ Len(block_tables[2]) = 2

\* C2 as claimed: every value v of the combined, prefill and decode slot
\* mappings satisfies
\* block_base_addr * block_size <= v < max_block_idx * block_size.
C2_Original ==
    pc = "done" =>
        \A v \in AllSlotValues :
            /\ block_base_addr * block_size <= v
            /\ v < max_block_idx * block_size

\* C2 amended: every value v of the combined, prefill and decode slot
\* mappings satisfies
\* block_base_addr * block_size <= v < (max_block_idx + 1) * block_size.
C2_SlotRange ==
    pc = "done" =>
        \A v \in AllSlotValues :
            /\ block_base_addr * block_size <= v
            /\ v < (max_block_idx + 1) * block_size

C2_Witness ==
    /\ pc = "done"
    /\ block_base_addr = 1
    /\ slot_mapping # <<>>
    /\ slot_mapping[1] = max_block_idx * block_size
    /\ prefill_slot_mapping # <<>>
    /\ decode_slot_mapping # <<>>

\* C3: each block table is num_blocks consecutive addresses counting down by
\* 1 from its first (highest) address, and token k (0-based) of a sequence
\* with block table B has slot (k mod block_size) + B[k div block_size] *
\* block_size; seq_lens = [3,5], block_size = 4, block_base_addr = 0 gives
\* tables [3], [2,1], combined [12,13,14,8,9,10,11,4], prefill
\* [12,13,8,9,10,11] and decode [14,4].
C3_TablesAndSlots ==
    pc = "done" =>
        /\ Len(block_tables) = Len(seq_lens)
        /\ \A i \in 1..Len(seq_lens) :
              LET B == block_tables[i] IN
              /\ Len(B) = BlockCounts[i]
              /\ \A j \in 1..Len(B) : B[j] = B[1] - (j - 1)
              /\ \A k \in 0..(seq_lens[i] - 1) :
                    slot_mapping[TokensBefore(i) + k + 1] =
                        (k % block_size) + B[(k \div block_size) + 1] * block_size
        /\ (seq_lens = <<3, 5>> /\ block_size = 4 /\ block_base_addr = 0) =>
              /\ block_tables = << <<3>>, <<2, 1>> >>
              /\ slot_mapping = <<12, 13, 14, 8, 9, 10, 11, 4>>
              /\ prefill_slot_mapping = <<12, 13, 8, 9, 10, 11>>
              /\ decode_slot_mapping = <<14, 4>>

C3_Witness ==
    /\ pc = "done"
    /\ seq_lens = <<3, 5>>
    /\ block_size = 4
    /\ block_base_addr = 0
    /\ slot_mapping = <<12, 13, 14, 8, 9, 10, 11, 4>>

\* the parts of C4 that do not mention the lowest address: the highest
\* address is block_base_addr + total_blocks and is the first entry of
\* sequence 0, and every address of sequence i exceeds every address of
\* sequence i+1
C4_Descending ==
    /\ \A a \in RangeOf(AllBlocks) : a <= block_base_addr + SumSeq(BlockCounts)
    /\ block_tables[1][1] = block_base_addr + SumSeq(BlockCounts)
    /\ \A i \in 1..(Len(block_tables) - 1) :
          \A a \in RangeOf(block_tables[i]) :
             \A b \in RangeOf(block_tables[i + 1]) : a > b

LastBlock ==
    LET B == block_tables[Len(block_tables)] IN B[Len(B)]

C5_Partition ==
    (pc = "done" /\ \A i \in 1..Len(seq_lens) : seq_lens[i] >= 1) =>
        /\ Len(slot_mapping) = SumSeq(seq_lens)
        /\ Len(decode_slot_mapping) = Len(seq_lens)
        /\ Len(prefill_slot_mapping) = SumSeq(seq_lens) - Len(seq_lens)
        /\ Len(prefill_slot_mapping) + Len(decode_slot_mapping)
              = Len(slot_mapping)
        /\ \A i \in 1..Len(seq_lens) :
              /\ decode_slot_mapping[i] =
                    slot_mapping[TokensBefore(i) + seq_lens[i]]
              /\ \A k \in 1..(seq_lens[i] - 1) :
                    prefill_slot_mapping[TokensBefore(i) - (i - 1) + k] =
                        slot_mapping[TokensBefore(i) + k]

C5_Witness ==
    /\ pc = "done"
    /\ Len(seq_lens) = 2
    /\ seq_lens[1] >= 2
    /\ seq_lens[2] >= 2
    /\ Len(decode_slot_mapping) = 2
    /\ Len(prefill_slot_mapping) >= 2

\* C6: in a chain of calls with one block_size where each block_base_addr is
\* the previous call's max_block_idx, the block addresses and the combined
\* slot indices of a call are disjoint from those of every earlier call.
C6_ChainDisjoint ==
    pc = "done" =>
        /\ RangeOf(AllBlocks) \cap prev_blocks = {}
        /\ RangeOf(slot_mapping) \cap prev_slots = {}

C6_Witness ==
    /\ pc = "done"
    /\ num_calls = 3
    /\ Len(seq_lens) = 2
    /\ Cardinality(prev_blocks) >= 3
    /\ prev_blocks # {}
    /\ prev_slots # {}
    /\ slot_mapping # <<>>

\* C7: num_tokens_to_min_blocks(n, block_size) is floor((n + block_size) /
\* block_size) and ceil((n + 1) / block_size); the blocks of a sequence hold
\* at least n + 1 tokens, so the slot of an appended token (index n) lies in
\* a block that is already in the sequence's block table.
C7_Headroom ==
    /\ \A i \in 1..Len(seq_lens) :
          LET n == seq_lens[i]
              m == num_tokens_to_min_blocks(n, block_size)
          IN /\ m * block_size <= n + block_size
             /\ n + block_size < (m + 1) * block_size
             /\ m * block_size >= n + 1
             /\ (m - 1) * block_size < n + 1
    /\ pc = "done" =>
          \A i \in 1..Len(seq_lens) :
             LET n == seq_lens[i]
                 B == block_tables[i]
             IN /\ Len(B) * block_size >= n + 1
                /\ (n \div block_size) + 1 \in 1..Len(B)
                /\ ((n % block_size) + B[(n \div block_size) + 1] * block_size)
                      \div block_size \in RangeOf(B)

C7_Witness ==
    /\ pc = "done"
    /\ \E i \in 1..Len(seq_lens) :
          /\ seq_lens[i] = block_size
          /\ block_size >= 2
          /\ Len(block_tables[i]) = 2

\* ------------------------------------------------ pack_tensor: properties
\* C8: the packed buffer has sum(seq_lens) rows; start_loc has batch_size + 1
\* entries, is non-decreasing, starts at 0, steps by seq_lens[i] from entry i
\* to entry i+1 and ends at sum(seq_lens).
C8_StartLoc ==
    pack_pc = "done" =>
        /\ Len(packed_tensor) = SumSeq(pack_seq_lens)
        /\ Len(start_loc_list) = Len(unpacked_tensor) + 1
        /\ start_loc_list[1] = 0
        /\ \A i \in 1..Len(pack_seq_lens) :
              /\ start_loc_list[i + 1] - start_loc_list[i] = pack_seq_lens[i]
              /\ start_loc_list[i] <= start_loc_list[i + 1]
        /\ start_loc_list[Len(start_loc_list)] = SumSeq(pack_seq_lens)

C8_Witness ==
    /\ pack_pc = "done"
    /\ pack_seq_lens = <<2, 1>>
    /\ start_loc_list = <<0, 2, 3>>
    /\ Len(packed_tensor) = 3

\* the (sequence, token) pairs of the non-padded region, 0-based token
ValidTokens ==
    {<<i, t>> \in (1..Len(pack_seq_lens)) \X (0..PackMaxLen + 1) :
        t < pack_seq_lens[i]}

\* C9: token t of sequence i is found at packed[start_loc[i] + t], and every
\* packed row is the image of exactly one (i, t) of the non-padded region.
C9_RoundTrip ==
    pack_pc = "done" =>
        /\ \A p \in ValidTokens :
              packed_tensor[start_loc_list[p[1]] + p[2] + 1] =
                  unpacked_tensor[p[1]][p[2] + 1]
        /\ \A r \in 1..Len(packed_tensor) :
              Cardinality({p \in ValidTokens :
                              start_loc_list[p[1]] + p[2] + 1 = r}) = 1

C9_Witness ==
    /\ pack_pc = "done"
    /\ pack_seq_lens = <<1, 2>>
    /\ unpacked_tensor[1] = <<0, 1>>
    /\ unpacked_tensor[2] = <<1, 0>>
    /\ packed_tensor = <<0, 1, 0>>

\* --------------------------------------------------- make_qkv: properties
\* one phase split of a baseline buffer x with lengths lens
SplitOk(x, px, dx, lens, plens, dlens) ==
    \A i \in 1..Len(lens) :
        /\ plens[i] + dlens[i] = lens[i]
        /\ plens[i] = lens[i] - 1
        /\ dlens[i] = 1
        /\ \A t \in 1..Len(px[i]) :
              px[i][t] = IF t <= lens[i] - 1 THEN x[i][t] ELSE 0
        /\ dx[i] = <<x[i][lens[i]]>>
        /\ \A t \in 1..lens[i] :
              Cardinality({u \in 1..Len(px[i]) : px[i][u] = x[i][t]})
                + Cardinality({u \in 1..Len(dx[i]) : dx[i][u] = x[i][t]}) = 1

\* C10: for lengths >= 2, prefill_len + decode_len = baseline_len with
\* prefill_len = len - 1 and decode_len = 1; the prefill row is the baseline
\* at token indices 0..len-2 and zero elsewhere, the decode row is the
\* baseline token len-1, and every real baseline token is in exactly one view.
C10_PhaseSplit ==
    (/\ qkv_pc = "done"
     /\ \A i \in 1..Len(q_seq_lens) : q_seq_lens[i] >= 2 /\ kv_seq_lens[i] >= 2)
    =>
        /\ SplitOk(query, prefill_query, decode_query, q_seq_lens,
                   prefill_q_seq_lens, decode_q_seq_lens)
        /\ SplitOk(key, prefill_key, decode_key, kv_seq_lens,
                   prefill_kv_seq_lens, decode_kv_seq_lens)
        /\ SplitOk(value, prefill_value, decode_value, kv_seq_lens,
                   prefill_kv_seq_lens, decode_kv_seq_lens)

C10_Witness ==
    /\ qkv_pc = "done"
    /\ batch_size = 2
    /\ q_seq_lens = <<2, 3>>
    /\ kv_seq_lens = <<3, 2>>
    /\ prefill_q_seq_lens = <<1, 2>>
    /\ decode_key[1] = <<key[1][3]>>

\* C11: the prefill query buffer has width max_q_seq_len - 1 and the prefill
\* key and value buffers have width max_kv_seq_len - 1 along the sequence
\* axis, one less than the baseline buffers.
C11_PrefillWidth ==
    qkv_pc = "done" =>
        \A i \in 1..batch_size :
            /\ Len(query[i]) = max_q_seq_len
            /\ Len(key[i]) = max_kv_seq_len
            /\ Len(value[i]) = max_kv_seq_len
            /\ Len(prefill_query[i]) = max_q_seq_len - 1
            /\ Len(prefill_key[i]) = max_kv_seq_len - 1
            /\ Len(prefill_value[i]) = max_kv_seq_len - 1

\* ------------------------------------- allocator: degenerate inputs, slots
\* C12: a call with an empty seq_lens, or with a seq_lens that holds a
\* zero-token sequence, returns normally: the empty list gives empty slot
\* mappings, and a zero-token sequence adds no entry to any slot mapping.
C12_DegenerateReturns ==
    (/\ pc # "call"
     /\ \/ seq_lens = <<>>
        \/ \E i \in 1..Len(seq_lens) : seq_lens[i] = 0)
    =>
        /\ pc = "done"
        /\ Len(slot_mapping) = SumSeq(seq_lens)
        /\ Len(prefill_slot_mapping) + Len(decode_slot_mapping)
              = Len(slot_mapping)
        /\ Len(decode_slot_mapping) =
              Cardinality({i \in 1..Len(seq_lens) : seq_lens[i] >= 1})

\* C15: within one call the combined slot mapping is injective: it holds
\* sum(seq_lens) pairwise different values, and no slot is in both the
\* prefill and the decode slot mapping.
C15_SlotsInjective ==
    pc = "done" =>
        /\ Len(slot_mapping) = SumSeq(seq_lens)
        /\ \A a, b \in 1..Len(slot_mapping) :
              a # b => slot_mapping[a] # slot_mapping[b]
        /\ Cardinality(RangeOf(slot_mapping)) = SumSeq(seq_lens)
        /\ RangeOf(prefill_slot_mapping) \cap RangeOf(decode_slot_mapping) = {}

C15_Witness ==
    /\ pc = "done"
    /\ Len(seq_lens) = 3
    /\ seq_lens[1] > block_size
    /\ seq_lens[2] = 1
    /\ seq_lens[3] > block_size
    /\ block_size >= 2
    /\ Cardinality(RangeOf(slot_mapping)) >= 7

\* ------------------------------------------ ref_masked_attention: properties
LenMismatch(x, b) == ~x.is_none /\ Len(x.val) # b

\* C13: q_seq_lens and kv_seq_lens are optional: the call fails exactly when
\* a supplied list has a length other than the batch size B; an omitted
\* (None) list has its length check and its masking skipped, and the call
\* completes.
C13_OptionalLens ==
    attn_pc # "call" =>
        /\ attn_pc = "raised" <=>
              \/ LenMismatch(attn_q_seq_lens, attn_batch_size)
              \/ LenMismatch(attn_kv_seq_lens, attn_batch_size)
        /\ (attn_q_seq_lens.is_none /\ attn_kv_seq_lens.is_none)
              => attn_pc = "done"

\* -------------------------------------------- make_test_metadata: properties
IsMaxOf(m, lens) ==
    /\ m \in RangeOf(lens)
    /\ \A i \in 1..Len(lens) : lens[i] <= m

\* what C14 says of every record apart from num_prefills of a prefill record
C14_Rest ==
    /\ is_prompt =>
          /\ metadata.num_prefill_tokens = num_prefill_or_decode_tokens
          /\ metadata.num_decode_tokens = 0
          /\ metadata.max_decode_seq_len = SomeInt(0)
    /\ ~is_prompt =>
          /\ metadata.num_prefills = 0
          /\ metadata.num_prefill_tokens = 0
          /\ metadata.max_prefill_seq_len = SomeInt(0)
          /\ metadata.num_decode_tokens = num_prefill_or_decode_tokens
          /\ ~metadata.max_decode_seq_len.is_none
          /\ IsMaxOf(metadata.max_decode_seq_len.val, meta_seq_lens.val)
    /\ ~(metadata.num_prefill_tokens # 0 /\ metadata.num_decode_tokens # 0)
    /\ metadata.use_cuda_graph = FALSE

\* C14 as claimed: a prefill record has num_prefills = len(seq_lens), the
\* supplied token count as num_prefill_tokens and zero decode counters; a
\* decode record has the inverse, with max_decode_seq_len = max(seq_lens);
\* never both token counts non-zero; use_cuda_graph always false.
C14_Original ==
    meta_pc = "done" =>
        /\ (is_prompt /\ ~meta_seq_lens.is_none) =>
              metadata.num_prefills = Len(meta_seq_lens.val)
        /\ C14_Rest

\* C14 amended: as claimed, except that a prefill record has num_prefills
\* equal to the supplied num_prefills_or_decodes, which is the batch size
\* only when the caller passes len(seq_lens).
C14_SinglePhase ==
    meta_pc = "done" =>
        /\ is_prompt => metadata.num_prefills = num_prefills_or_decodes
        /\ C14_Rest

C14_Witness ==
    /\ meta_pc = "done"
    /\ is_prompt
    /\ meta_seq_lens = SomeList(<<2, 1>>)
    /\ num_prefills_or_decodes = 1
    /\ num_prefill_or_decode_tokens = 2
    /\ metadata.num_prefills = 1
    /\ metadata.num_prefill_tokens = 2

====
